---- MODULE Spec2Model ----
(***************************************************************************)
(* couchdb_api: the call layer (calls.py) and the status-message layer     *)
(* (utils/status_code_message.py).                                         *)
(*                                                                         *)
(* A Python str is a sequence of tokens.  The token "/" is the slash       *)
(* character; every other token is a run of characters without a slash     *)
(* ("db1", "_find", ...).  Two strings are equal iff their token sequences *)
(* are equal, so <<"db1", "_find">> (the name db1_find) differs from       *)
(* <<"_find">>.                                                            *)
(* An Optional value is a sequence of length at most one: None is <<>>,    *)
(* the value v is <<v>>.                                                   *)
(* The message literals of the source that contain the typographic         *)
(* apostrophe U+2019 are written here with the ASCII apostrophe.           *)
(***************************************************************************)
EXTENDS Integers, Sequences, FiniteSets, TLC

VARIABLES pc, fn, args, calls, returned, awaited, response, message, outcome

vars == <<pc, fn, args, calls, returned, awaited, response, message, outcome>>

None == <<>>

Some(v) == <<v>>

(***************************************************************************)
(* Strings                                                                 *)
(***************************************************************************)
Slash == <<"/">>

\* A string literal without a slash.
S(token) == <<token>>

\* str.split('/'): the segments between the slashes, the empty ones included.
RECURSIVE SplitFrom(_, _, _)
SplitFrom(str, i, cur) ==
    IF i > Len(str) THEN <<cur>>
    ELSE IF str[i] = "/" THEN <<cur>> \o SplitFrom(str, i + 1, <<>>)
    ELSE SplitFrom(str, i + 1, Append(cur, str[i]))

Split(str) == SplitFrom(str, 1, <<>>)

\* tuple(part for part in ... if part != '')
NonEmptyParts(parts) == SelectSeq(parts, LAMBDA part : part # <<>>)

\* '/'.join(segments)
RECURSIVE Join(_)
Join(segments) ==
    IF segments = <<>> THEN <<>>
    ELSE IF Len(segments) = 1 THEN segments[1]
    ELSE segments[1] \o Slash \o Join(Tail(segments))

(***************************************************************************)
(* The status-code tables                                                  *)
(***************************************************************************)
\* Mutant: the 404 entry carries the message of the database tables.
get_db_doc_status_code_message_Wrong404(status_code) ==
    CASE status_code = 200 -> Some("Request completed successfully.")
      [] status_code = 304 -> Some("Document wasn't modified since specified revision.")
      [] status_code = 400 -> Some("The format of the request or revision was invalid.")
      [] status_code = 401 -> Some("Read privilege required.")
      [] status_code = 404 -> Some("Requested database not found.")
      [] OTHER -> None

get_db_doc_status_code_message(status_code) ==
    CASE status_code = 200 -> Some("Request completed successfully.")
      [] status_code = 304 -> Some("Document wasn't modified since specified revision.")
      [] status_code = 400 -> Some("The format of the request or revision was invalid.")
      [] status_code = 401 -> Some("Read privilege required.")
      [] status_code = 404 -> Some("Document not found.")
      [] OTHER -> None

put_db_doc_status_code_message(status_code) ==
    CASE status_code = 201 -> Some("Document created and stored on disk.")
      [] status_code = 202 -> Some("Document data accepted, but not yet stored on disk.")
      [] status_code = 400 -> Some("Invalid request body or parameters.")
      [] status_code = 401 -> Some("Write privileges required.")
      [] status_code = 404 -> Some("Specified database or document ID doesn't exists.")
      [] status_code = 409 -> Some("Document with the specified ID already exists or specified revision is not latest for target document.")
      [] OTHER -> None

delete_db_doc_status_code_message(status_code) ==
    CASE status_code = 200 -> Some("Document successfully removed.")
      [] status_code = 202 -> Some("Request was accepted, but changes are not yet stored on disk.")
      [] status_code = 400 -> Some("Invalid request body or parameters.")
      [] status_code = 401 -> Some("Write privileges required.")
      [] status_code = 404 -> Some("Specified database or document ID doesn't exists.")
      [] status_code = 409 -> Some("Specified revision is not the latest for target document.")
      [] OTHER -> None

db_put_status_code_message(status_code) ==
    CASE status_code = 201 -> Some("Database created successfully (quorum is met).")
      [] status_code = 202 -> Some("Accepted (at least by one node).")
      [] status_code = 400 -> Some("Invalid database name.")
      [] status_code = 401 -> Some("CouchDB Server Administrator privileges required.")
      [] status_code = 412 -> Some("Database already exists.")
      [] OTHER -> None

db_post_status_code_message(status_code) ==
    CASE status_code = 201 -> Some("Document created and stored on disk.")
      [] status_code = 202 -> Some("Document data accepted, but not yet stored on disk.")
      [] status_code = 400 -> Some("Invalid database name.")
      [] status_code = 401 -> Some("Write privileges required.")
      [] status_code = 404 -> Some("Database doesn't exist.")
      [] status_code = 409 -> Some("A Conflicting Document with same ID already exists.")
      [] OTHER -> None

db_find_status_code_message(status_code) ==
    CASE status_code = 200 -> Some("Request completed successfully.")
      [] status_code = 400 -> Some("Invalid request.")
      [] status_code = 401 -> Some("Read permission required.")
      [] status_code = 404 -> Some("Requested database not found.")
      [] OTHER -> None

db_all_docs_status_code_message(status_code) ==
    CASE status_code = 200 -> Some("Request completed successfully.")
      [] status_code = 404 -> Some("Requested database not found.")
      [] OTHER -> None

db_bulk_docs_status_code_message(status_code) ==
    CASE status_code = 201 -> Some("Document(s) have been created or updated.")
      [] status_code = 400 -> Some("The request provided invalid JSON data.")
      [] status_code = 404 -> Some("Requested database not found.")
      [] OTHER -> None

all_dbs_status_code_message(status_code) ==
    CASE status_code = 200 -> Some("Request completed successfully.")
      [] OTHER -> None

put_design_doc_status_code_message(status_code) ==
    put_db_doc_status_code_message(status_code)

put_db_security_status_code_message(status_code) ==
    CASE status_code = 200 -> Some("Request completed successfully.")
      [] status_code = 401 -> Some("CouchDB Server Administrator privileges required.")
      [] OTHER -> None

(***************************************************************************)
(* status_code_message_from_response                                       *)
(*                                                                         *)
(* The result of a Python call is a record: raises is "" and value is the  *)
(* returned Optional[str], or raises names the exception that escaped.     *)
(***************************************************************************)
Return(value) == [raises |-> "", value |-> value]

Raise(exception) == [raises |-> exception, value |-> None]

\* url_path_parts[i] with Python's 0-based index: the part, or None where
\* Python raises IndexError.
Subscript(url_path_parts, i) ==
    IF i < Len(url_path_parts) THEN Some(url_path_parts[i + 1]) ELSE None

\* The branch of each method: the length tests, then the match on a part.
\* A branch whose if/elif chain has no else falls off the end of the
\* function, which returns None.

\* Mutant: the one-segment branch matches on url_path_parts[1].
ResolveGet_OffByOne(url_path_parts, status_code) ==
    IF Len(url_path_parts) = 1 THEN
        LET part == Subscript(url_path_parts, 1)
        IN  IF part = None THEN Raise("IndexError")
            ELSE IF part[1] = S("_all_dbs")
                THEN Return(all_dbs_status_code_message(status_code))
                ELSE Return(None)
    ELSE IF Len(url_path_parts) = 2 THEN
        LET part == Subscript(url_path_parts, 1)
        IN  IF part = None THEN Raise("IndexError")
            ELSE IF part[1] = S("_all_docs")
                THEN Return(all_dbs_status_code_message(status_code))
                ELSE Return(get_db_doc_status_code_message(status_code))
    ELSE Return(None)

ResolveGet(url_path_parts, status_code) ==
    IF Len(url_path_parts) = 1 THEN
        LET part == Subscript(url_path_parts, 0)
        IN  IF part = None THEN Raise("IndexError")
            ELSE IF part[1] = S("_all_dbs")
                THEN Return(all_dbs_status_code_message(status_code))
                ELSE Return(None)
    ELSE IF Len(url_path_parts) = 2 THEN
        LET part == Subscript(url_path_parts, 1)
        IN  IF part = None THEN Raise("IndexError")
            ELSE IF part[1] = S("_all_docs")
                THEN Return(all_dbs_status_code_message(status_code))
                ELSE Return(get_db_doc_status_code_message(status_code))
    ELSE Return(None)

\* Mutant: the design-document branch takes every path of three or more parts.
ResolvePut_DesignAnyDepth(url_path_parts, status_code) ==
    IF Len(url_path_parts) = 1 THEN
        LET part == Subscript(url_path_parts, 0)
        IN  IF part = None THEN Raise("IndexError")
            ELSE Return(db_put_status_code_message(status_code))
    ELSE IF Len(url_path_parts) = 2 THEN
        LET part == Subscript(url_path_parts, 1)
        IN  IF part = None THEN Raise("IndexError")
            ELSE IF part[1] = S("_security")
                THEN Return(put_db_security_status_code_message(status_code))
                ELSE Return(put_db_doc_status_code_message(status_code))
    ELSE IF Len(url_path_parts) >= 3 THEN
        LET part == Subscript(url_path_parts, 1)
        IN  IF part = None THEN Raise("IndexError")
            ELSE IF part[1] = S("_design")
                THEN Return(put_design_doc_status_code_message(status_code))
                ELSE Return(None)
    ELSE Return(None)

ResolvePut(url_path_parts, status_code) ==
    IF Len(url_path_parts) = 1 THEN
        LET part == Subscript(url_path_parts, 0)
        IN  IF part = None THEN Raise("IndexError")
            ELSE Return(db_put_status_code_message(status_code))
    ELSE IF Len(url_path_parts) = 2 THEN
        LET part == Subscript(url_path_parts, 1)
        IN  IF part = None THEN Raise("IndexError")
            ELSE IF part[1] = S("_security")
                THEN Return(put_db_security_status_code_message(status_code))
                ELSE Return(put_db_doc_status_code_message(status_code))
    ELSE IF Len(url_path_parts) = 3 THEN
        LET part == Subscript(url_path_parts, 1)
        IN  IF part = None THEN Raise("IndexError")
            ELSE IF part[1] = S("_design")
                THEN Return(put_design_doc_status_code_message(status_code))
                ELSE Return(None)
    ELSE Return(None)

ResolvePost(url_path_parts, status_code) ==
    IF Len(url_path_parts) = 1 THEN
        LET part == Subscript(url_path_parts, 0)
        IN  IF part = None THEN Raise("IndexError")
            ELSE Return(db_post_status_code_message(status_code))
    ELSE IF Len(url_path_parts) = 2 THEN
        LET part == Subscript(url_path_parts, 1)
        IN  IF part = None THEN Raise("IndexError")
            ELSE IF part[1] = S("_bulk_docs")
                THEN Return(db_bulk_docs_status_code_message(status_code))
            ELSE IF part[1] = S("_find")
                THEN Return(db_find_status_code_message(status_code))
                ELSE Return(None)
    ELSE Return(None)

ResolveDelete(url_path_parts, status_code) ==
    IF Len(url_path_parts) = 2 THEN
        LET part == Subscript(url_path_parts, 0)
        IN  IF part = None THEN Raise("IndexError")
            ELSE Return(delete_db_doc_status_code_message(status_code))
    ELSE Return(None)

status_code_message_from_response(resp) ==
    LET url_path_parts == NonEmptyParts(Split(resp.request.url.path))
        method == resp.request.method
    IN  CASE method = "GET" -> ResolveGet(url_path_parts, resp.status_code)
          [] method = "PUT" -> ResolvePut(url_path_parts, resp.status_code)
          [] method = "POST" -> ResolvePost(url_path_parts, resp.status_code)
          [] method = "DELETE" -> ResolveDelete(url_path_parts, resp.status_code)
          [] OTHER -> Return(None)

(***************************************************************************)
(* raise_from_status_with_status_code_message                              *)
(***************************************************************************)
\* httpx.Response.raise_for_status as called by the wrapper: None for a 2xx
\* status, otherwise the HTTPStatusError it raises, which carries the
\* response and its request.
raise_for_status(resp) ==
    IF resp.status_code \div 100 = 2 THEN None
    ELSE Some([type |-> "HTTPStatusError",
               message |-> CASE resp.status_code \div 100 = 1 -> "Informational response"
                             [] resp.status_code \div 100 = 3 -> "Redirect response"
                             [] resp.status_code \div 100 = 4 -> "Client error"
                             [] OTHER -> "Server error",
               request |-> resp.request,
               response |-> resp])

CouchDBHTTPStatusError(msg, request, resp) ==
    [type |-> "CouchDBHTTPStatusError", message |-> msg,
     request |-> request, response |-> resp]

\* An exception other than a status error that escapes the except block.
OtherError(name, resp) ==
    [type |-> name, message |-> "", request |-> resp.request, response |-> resp]

\* Python truthiness of an Optional[str]: None and '' are false.
Truthy(optional_str) == optional_str # None /\ optional_str[1] # ""

\* Mutant: the status error is re-raised whether or not a message was found.
raise_from_status_NeverWraps(resp) ==
    LET raised == raise_for_status(resp)
    IN  IF raised = None THEN None
        ELSE LET looked_up == status_code_message_from_response(resp)
             IN  IF looked_up.raises # "" THEN Some(OtherError(looked_up.raises, resp))
                 ELSE raised

\* Mutant: a CouchDBHTTPStatusError is raised even without a message.
raise_from_status_AlwaysWraps(resp) ==
    LET raised == raise_for_status(resp)
    IN  IF raised = None THEN None
        ELSE LET http_status_error == raised[1]
                 looked_up == status_code_message_from_response(resp)
             IN  IF looked_up.raises # "" THEN Some(OtherError(looked_up.raises, resp))
                 ELSE Some(CouchDBHTTPStatusError(
                               IF looked_up.value = None THEN "" ELSE looked_up.value[1],
                               http_status_error.request,
                               http_status_error.response))

\* Mutant: the message is looked up first and raised whatever the status is.
raise_from_status_MessageFirst(resp) ==
    LET raised == raise_for_status(resp)
        looked_up == status_code_message_from_response(resp)
    IN  IF looked_up.raises # "" THEN Some(OtherError(looked_up.raises, resp))
        ELSE IF Truthy(looked_up.value)
            THEN Some(CouchDBHTTPStatusError(looked_up.value[1], resp.request, resp))
            ELSE raised

\* The exception the wrapper raises, or None when it returns normally.
raise_from_status_with_status_code_message(resp) ==
    LET raised == raise_for_status(resp)
    IN  IF raised = None THEN None
        ELSE LET http_status_error == raised[1]
                 looked_up == status_code_message_from_response(resp)
             IN  IF looked_up.raises # "" THEN Some(OtherError(looked_up.raises, resp))
                 ELSE IF Truthy(looked_up.value)
                     THEN Some(CouchDBHTTPStatusError(looked_up.value[1],
                                                      http_status_error.request,
                                                      http_status_error.response))
                     ELSE Some(http_status_error)

(***************************************************************************)
(* structures.py                                                           *)
(***************************************************************************)
DesignDocumentFields ==
    {"language", "options", "filters", "updates", "validate_doc_update", "views", "autoupdate"}

\* DesignDocument(**given): every field not given defaults to None.
DesignDocument(given) ==
    [f \in DesignDocumentFields |-> IF f \in DOMAIN given THEN Some(given[f]) ELSE None]

SecurityObjectUserList(names, roles) == [names |-> names, roles |-> roles]

SecurityObject(members, admins) == [members |-> members, admins |-> admins]

(***************************************************************************)
(* calls.py                                                                *)
(*                                                                         *)
(* Executing a call function yields the verb invocations it made on the    *)
(* client, in order, and the index of the invocation whose coroutine it    *)
(* returned.                                                               *)
(***************************************************************************)
Invocation(verb, url, kwargs) == [verb |-> verb, url |-> url, kwargs |-> kwargs]

ReturnCall(invocation) == [calls |-> <<invocation>>, returns |-> 1]

\* Mutant: the query parameters are not passed on.
get_db_doc_DropsParams(db, docid, params, client_kwargs) ==
    ReturnCall(Invocation("get", Slash \o db \o Slash \o docid,
                          [params |-> None] @@ client_kwargs))

get_db_doc(db, docid, params, client_kwargs) ==
    ReturnCall(Invocation("get", Slash \o db \o Slash \o docid,
                          [params |-> params] @@ client_kwargs))

put_db_doc(db, docid, body, params, client_kwargs) ==
    ReturnCall(Invocation("put", Slash \o db \o Slash \o docid,
                          [json |-> body, params |-> params] @@ client_kwargs))

\* Mutant: the database and the document ID are interpolated in the wrong order.
delete_db_doc_SwappedPath(db, docid, params, client_kwargs) ==
    ReturnCall(Invocation("delete", Slash \o docid \o Slash \o db,
                          [params |-> params] @@ client_kwargs))

delete_db_doc(db, docid, params, client_kwargs) ==
    ReturnCall(Invocation("delete", Slash \o db \o Slash \o docid,
                          [params |-> params] @@ client_kwargs))

db_put(db, params, client_kwargs) ==
    ReturnCall(Invocation("put", Slash \o db, [params |-> params] @@ client_kwargs))

db_post(db, body, client_kwargs) ==
    ReturnCall(Invocation("post", Slash \o db, [json |-> body] @@ client_kwargs))

db_find(db, body, client_kwargs) ==
    ReturnCall(Invocation("post", Slash \o db \o Slash \o S("_find"),
                          [json |-> body] @@ client_kwargs))

db_all_docs(db, params, client_kwargs) ==
    ReturnCall(Invocation("get", Slash \o db \o Slash \o S("_all_docs"),
                          [params |-> params] @@ client_kwargs))

db_bulk_docs(db, documents, new_edits, client_kwargs) ==
    ReturnCall(Invocation("post", Slash \o db \o Slash \o S("_bulk_docs"),
                          [json |-> [docs |-> documents, new_edits |-> new_edits]]
                              @@ client_kwargs))

all_dbs(params, client_kwargs) ==
    ReturnCall(Invocation("get", Slash \o S("_all_dbs"),
                          [params |-> params] @@ client_kwargs))

\* Mutant: asdict without the dict_factory, which keeps the None fields.
DesignDocumentJson_KeepsNone(design_document) ==
    [f \in DOMAIN design_document |-> design_document[f]]

\* asdict(design_document, dict_factory=...): the fields that are not None.
DesignDocumentJson(design_document) ==
    [f \in {g \in DOMAIN design_document : design_document[g] # None}
        |-> design_document[f][1]]

put_design_doc(db, ddoc, design_document) ==
    ReturnCall(Invocation("put", Slash \o db \o Slash \o S("_design") \o Slash \o ddoc,
                          [json |-> DesignDocumentJson(design_document)]))

\* asdict(security_object): the nested dataclasses become nested dicts.
SecurityObjectJson(security_object) ==
    [members |-> [names |-> security_object.members.names,
                  roles |-> security_object.members.roles],
     admins |-> [names |-> security_object.admins.names,
                 roles |-> security_object.admins.roles]]

put_db_security(db, security_object) ==
    ReturnCall(Invocation("put", Slash \o db \o Slash \o S("_security"),
                          [json |-> SecurityObjectJson(security_object)]))

put_attachment(db, doc_id, attname, data) ==
    ReturnCall(Invocation("put", Slash \o db \o Slash \o doc_id \o Slash \o attname,
                          [data |-> data]))

\* Mutant: roles is passed on as given, so None becomes JSON null, written
\* <<"null">> to tell it from the empty list.
RolesOrEmpty_NoDefault(roles) == IF roles = None THEN <<"null">> ELSE roles[1]

\* roles or []
RolesOrEmpty(roles) == IF roles = None \/ roles[1] = <<>> THEN <<>> ELSE roles[1]

NoKwargs == [k \in {} |-> None]

\* Mutant: the document is put twice and the second coroutine is returned.
create_user_PutsTwice(username, password, roles) ==
    LET once == put_db_doc(S("_users"), S("org.couchdb.user:") \o username,
                           [name |-> username, password |-> password,
                            roles |-> RolesOrEmpty(roles), type |-> "user"],
                           None, NoKwargs)
    IN  [calls |-> once.calls \o once.calls, returns |-> 2]

create_user(username, password, roles) ==
    put_db_doc(S("_users"), S("org.couchdb.user:") \o username,
               [name |-> username, password |-> password,
                roles |-> RolesOrEmpty(roles), type |-> "user"],
               None, NoKwargs)

(***************************************************************************)
(* Inputs                                                                  *)
(***************************************************************************)
\* The longest path, in segments, of a response that did not come from a
\* call function (every shorter path is drawn as well).
MaxSegments == 4

ReservedSegments ==
    {S("_all_dbs"), S("_all_docs"), S("_security"), S("_design"), S("_bulk_docs"), S("_find")}

\* The segments between two slashes of such a path: empty, plain or reserved.
Segments == {<<>>, S("db1")} \cup ReservedSegments

RECURSIVE SegmentSeqs(_)
SegmentSeqs(n) ==
    IF n = 0 THEN {<<>>}
    ELSE LET shorter == SegmentSeqs(n - 1)
         IN  shorter \cup {Append(q, g) : q \in {r \in shorter : Len(r) = n - 1}, g \in Segments}

Paths == {Join(q) : q \in SegmentSeqs(MaxSegments)}

Methods == {"GET", "PUT", "POST", "DELETE", "HEAD"}

\* Every status code of a table, and 500, which no table has.
StatusCodes == {200, 201, 202, 304, 400, 401, 404, 409, 412, 500}

\* The str arguments of the call functions: empty, plain, with a slash,
\* reserved, and a name that only ends like a reserved one.
ArgStrings ==
    {<<>>, S("db1"), S("doc1"), <<"db1", "/", "doc1">>, <<"db1", "_find">>,
     S("_all_docs"), S("_security"), S("_design"), S("_all_dbs")}

Bodies == {[a |-> 1], [selector |-> [a |-> 1], limit |-> 2]}

ParamsArgs == {None, Some([rev |-> "1-abc"])}

ClientKwargs == {NoKwargs, [timeout |-> 5]}

DocumentLists == {<<>>, <<[a |-> 1]>>}

DesignDocuments ==
    {DesignDocument(NoKwargs),
     DesignDocument([language |-> "javascript"]),
     DesignDocument([views |-> [v |-> [map |-> "m", reduce |-> None]], autoupdate |-> FALSE]),
     DesignDocument([language |-> "javascript",
                     options |-> [local_seq |-> TRUE, include_design |-> FALSE],
                     filters |-> [f |-> "x"], updates |-> [u |-> "y"],
                     validate_doc_update |-> "z",
                     views |-> [v |-> [map |-> "m", reduce |-> Some("r")]],
                     autoupdate |-> TRUE])}

SecurityObjects ==
    {SecurityObject(SecurityObjectUserList(<<>>, <<>>), SecurityObjectUserList(<<>>, <<>>)),
     SecurityObject(SecurityObjectUserList(<<"bob">>, <<"dev">>),
                    SecurityObjectUserList(<<"amy">>, <<>>))}

AttachmentData == {<<>>, <<1, 2>>}

RolesArgs == {None, Some(<<>>), Some(<<"admin">>)}

TransportErrors == {"ConnectError", "ReadTimeout"}

(***************************************************************************)
(* The state machine: a caller invokes one call function, the client       *)
(* completes the request, and the caller resolves or checks the response.  *)
(***************************************************************************)
Init ==
    /\ pc = "idle"
    /\ fn = ""
    /\ args = None
    /\ calls = <<>>
    /\ returned = None
    /\ awaited = None
    /\ response = None
    /\ message = None
    /\ outcome = None

Invoke(name, arguments, execution) ==
    /\ pc' = "inflight"
    /\ fn' = name
    /\ args' = Some(arguments)
    /\ calls' = execution.calls
    /\ returned' = Some(execution.returns)
    /\ UNCHANGED <<awaited, response, message, outcome>>

Call_get_db_doc ==
    /\ pc = "idle"
    /\ \E db \in ArgStrings, docid \in ArgStrings, params \in ParamsArgs, kw \in ClientKwargs :
            Invoke("get_db_doc",
                   [db |-> db, docid |-> docid, params |-> params, client_kwargs |-> kw],
                   get_db_doc(db, docid, params, kw))

Call_put_db_doc ==
    /\ pc = "idle"
    /\ \E db \in ArgStrings, docid \in ArgStrings, body \in Bodies,
           params \in ParamsArgs, kw \in ClientKwargs :
            Invoke("put_db_doc",
                   [db |-> db, docid |-> docid, body |-> body, params |-> params,
                    client_kwargs |-> kw],
                   put_db_doc(db, docid, body, params, kw))

Call_delete_db_doc ==
    /\ pc = "idle"
    /\ \E db \in ArgStrings, docid \in ArgStrings, params \in ParamsArgs, kw \in ClientKwargs :
            Invoke("delete_db_doc",
                   [db |-> db, docid |-> docid, params |-> params, client_kwargs |-> kw],
                   delete_db_doc(db, docid, params, kw))

Call_db_put ==
    /\ pc = "idle"
    /\ \E db \in ArgStrings, params \in ParamsArgs, kw \in ClientKwargs :
            Invoke("db_put", [db |-> db, params |-> params, client_kwargs |-> kw],
                   db_put(db, params, kw))

Call_db_post ==
    /\ pc = "idle"
    /\ \E db \in ArgStrings, body \in Bodies, kw \in ClientKwargs :
            Invoke("db_post", [db |-> db, body |-> body, client_kwargs |-> kw],
                   db_post(db, body, kw))

Call_db_find ==
    /\ pc = "idle"
    /\ \E db \in ArgStrings, body \in Bodies, kw \in ClientKwargs :
            Invoke("db_find", [db |-> db, body |-> body, client_kwargs |-> kw],
                   db_find(db, body, kw))

Call_db_all_docs ==
    /\ pc = "idle"
    /\ \E db \in ArgStrings, params \in ParamsArgs, kw \in ClientKwargs :
            Invoke("db_all_docs", [db |-> db, params |-> params, client_kwargs |-> kw],
                   db_all_docs(db, params, kw))

Call_db_bulk_docs ==
    /\ pc = "idle"
    /\ \E db \in ArgStrings, documents \in DocumentLists, new_edits \in BOOLEAN,
           kw \in ClientKwargs :
            Invoke("db_bulk_docs",
                   [db |-> db, documents |-> documents, new_edits |-> new_edits,
                    client_kwargs |-> kw],
                   db_bulk_docs(db, documents, new_edits, kw))

Call_all_dbs ==
    /\ pc = "idle"
    /\ \E params \in ParamsArgs, kw \in ClientKwargs :
            Invoke("all_dbs", [params |-> params, client_kwargs |-> kw], all_dbs(params, kw))

Call_put_design_doc ==
    /\ pc = "idle"
    /\ \E db \in ArgStrings, ddoc \in ArgStrings, design_document \in DesignDocuments :
            Invoke("put_design_doc",
                   [db |-> db, ddoc |-> ddoc, design_document |-> design_document],
                   put_design_doc(db, ddoc, design_document))

Call_put_db_security ==
    /\ pc = "idle"
    /\ \E db \in ArgStrings, security_object \in SecurityObjects :
            Invoke("put_db_security", [db |-> db, security_object |-> security_object],
                   put_db_security(db, security_object))

Call_put_attachment ==
    /\ pc = "idle"
    /\ \E db \in ArgStrings, doc_id \in ArgStrings, attname \in ArgStrings,
           data \in AttachmentData :
            Invoke("put_attachment",
                   [db |-> db, doc_id |-> doc_id, attname |-> attname, data |-> data],
                   put_attachment(db, doc_id, attname, data))

Call_create_user ==
    /\ pc = "idle"
    /\ \E username \in ArgStrings, password \in {"pw"}, roles \in RolesArgs :
            Invoke("create_user",
                   [username |-> username, password |-> password, roles |-> roles],
                   create_user(username, password, roles))

\* The verb methods of the client set the request method.
VerbMethod(verb) ==
    CASE verb = "get" -> "GET"
      [] verb = "put" -> "PUT"
      [] verb = "post" -> "POST"
      [] verb = "delete" -> "DELETE"

\* The response the client gives to an invocation; the client's base URL has
\* no path of its own, so the request's path is the url it was given.
ResponseTo(invocation, status_code) ==
    [request |-> [method |-> VerbMethod(invocation.verb), url |-> [path |-> invocation.url]],
     status_code |-> status_code]

\* What awaiting a coroutine gives: a response, or the error raised.
Awaited(error, resp) == [error |-> error, response |-> resp]

\* The request whose coroutine the call function returned completes.
ClientRespond ==
    /\ pc = "inflight"
    /\ \E status_code \in StatusCodes :
        LET resp == ResponseTo(calls[returned[1]], status_code)
        IN  /\ awaited' = Some(Awaited("", Some(resp)))
            /\ response' = Some(resp)
    /\ pc' = "responded"
    /\ UNCHANGED <<fn, args, calls, returned, message, outcome>>

\* The request fails in transport: awaiting the coroutine raises the error.
ClientFail ==
    /\ pc = "inflight"
    /\ \E error \in TransportErrors : awaited' = Some(Awaited(error, None))
    /\ pc' = "failed"
    /\ UNCHANGED <<fn, args, calls, returned, response, message, outcome>>

\* A response that did not come from a call function of this library.
ForeignResponse ==
    /\ pc = "idle"
    /\ \E method \in Methods, path \in Paths, status_code \in StatusCodes :
        response' = Some([request |-> [method |-> method, url |-> [path |-> path]],
                          status_code |-> status_code])
    /\ pc' = "responded"
    /\ UNCHANGED <<fn, args, calls, returned, awaited, message, outcome>>

StatusCodeMessage ==
    /\ pc = "responded"
    /\ message' = Some(status_code_message_from_response(response[1]))
    /\ pc' = "resolved"
    /\ UNCHANGED <<fn, args, calls, returned, awaited, response, outcome>>

RaiseFromStatus ==
    /\ pc = "responded"
    /\ outcome' = raise_from_status_with_status_code_message(response[1])
    /\ pc' = "checked"
    /\ UNCHANGED <<fn, args, calls, returned, awaited, response, message>>

Next ==
    \/ Call_get_db_doc
    \/ Call_put_db_doc
    \/ Call_delete_db_doc
    \/ Call_db_put
    \/ Call_db_post
    \/ Call_db_find
    \/ Call_db_all_docs
    \/ Call_db_bulk_docs
    \/ Call_all_dbs
    \/ Call_put_design_doc
    \/ Call_put_db_security
    \/ Call_put_attachment
    \/ Call_create_user
    \/ ClientRespond
    \/ ClientFail
    \/ ForeignResponse
    \/ StatusCodeMessage
    \/ RaiseFromStatus

Spec == Init /\ [][Next]_vars

(***************************************************************************)
(* Vocabulary of the properties                                            *)
(***************************************************************************)
Resp == response[1]

Method == Resp.request.method

\* The path shape of the response: its non-empty segments.
PathParts == NonEmptyParts(Split(Resp.request.url.path))

Resolved == pc = "resolved"

Checked == pc = "checked"

\* The endpoint a method and path shape belong to, "" when there is none.
Endpoint(method, parts) ==
    LET n == Len(parts)
    IN  CASE method = "GET" /\ n = 1 /\ parts[1] = S("_all_dbs") -> "GET /_all_dbs"
          [] method = "GET" /\ n = 2 /\ parts[2] = S("_all_docs") -> "GET /{db}/_all_docs"
          [] method = "GET" /\ n = 2 /\ parts[2] # S("_all_docs") -> "GET /{db}/{docid}"
          [] method = "PUT" /\ n = 1 -> "PUT /{db}"
          [] method = "PUT" /\ n = 2 /\ parts[2] = S("_security") -> "PUT /{db}/_security"
          [] method = "PUT" /\ n = 2 /\ parts[2] # S("_security") -> "PUT /{db}/{docid}"
          [] method = "PUT" /\ n = 3 /\ parts[2] = S("_design") -> "PUT /{db}/_design/{ddoc}"
          [] method = "POST" /\ n = 1 -> "POST /{db}"
          [] method = "POST" /\ n = 2 /\ parts[2] = S("_bulk_docs") -> "POST /{db}/_bulk_docs"
          [] method = "POST" /\ n = 2 /\ parts[2] = S("_find") -> "POST /{db}/_find"
          [] method = "DELETE" /\ n = 2 -> "DELETE /{db}/{docid}"
          [] OTHER -> ""

\* The entry of an endpoint's own table for a status code, None without one.
EndpointTable(endpoint, status_code) ==
    CASE endpoint = "GET /_all_dbs" -> all_dbs_status_code_message(status_code)
      [] endpoint = "GET /{db}/_all_docs" -> db_all_docs_status_code_message(status_code)
      [] endpoint = "GET /{db}/{docid}" -> get_db_doc_status_code_message(status_code)
      [] endpoint = "PUT /{db}" -> db_put_status_code_message(status_code)
      [] endpoint = "PUT /{db}/_security" -> put_db_security_status_code_message(status_code)
      [] endpoint = "PUT /{db}/{docid}" -> put_db_doc_status_code_message(status_code)
      [] endpoint = "PUT /{db}/_design/{ddoc}" -> put_design_doc_status_code_message(status_code)
      [] endpoint = "POST /{db}" -> db_post_status_code_message(status_code)
      [] endpoint = "POST /{db}/_bulk_docs" -> db_bulk_docs_status_code_message(status_code)
      [] endpoint = "POST /{db}/_find" -> db_find_status_code_message(status_code)
      [] endpoint = "DELETE /{db}/{docid}" -> delete_db_doc_status_code_message(status_code)
      [] OTHER -> None

Listed == EndpointTable(Endpoint(Method, PathParts), Resp.status_code)

\* C1: for every endpoint with a table and every status code listed in that
\* table, the resolver returns exactly the message of that endpoint's table.
C1_ListedMessageReturned ==
    (Resolved /\ Listed # None) => message[1] = Return(Listed)

\* C2: the resolver returns None for every combination absent from the
\* tables: a method, a path shape or a status code without an entry.
C2_AbsentGivesNone ==
    (Resolved /\ Listed = None) => message[1] = Return(None)

C2_Witness ==
    /\ Resolved
    /\ Method = "PUT"
    /\ Len(PathParts) = 4
    /\ PathParts[2] = S("_design")
    /\ Resp.status_code = 404
    /\ message[1] = Return(None)

\* C3: get_db_doc_status_code_message(404) is 'Document not found.', and so
\* is the resolver's result for a GET of a two-segment path whose second
\* segment is not '_all_docs' answered with 404.
C3_DocumentNotFound ==
    /\ get_db_doc_status_code_message(404) = Some("Document not found.")
    /\ (/\ Resolved
        /\ Method = "GET"
        /\ Len(PathParts) = 2
        /\ PathParts[2] # S("_all_docs")
        /\ Resp.status_code = 404)
       => message[1] = Return(Some("Document not found."))

C3_Witness ==
    /\ Resolved
    /\ Method = "GET"
    /\ PathParts = <<S("db1"), S("doc1")>>
    /\ Resp.status_code = 404
    /\ message[1].value = Some("Document not found.")

NonSuccess == Resp.status_code \div 100 # 2

Lookup == status_code_message_from_response(Resp)

\* C4: for a non-2xx response whose combination the resolver recognizes, the
\* wrapper raises a CouchDBHTTPStatusError whose message is the looked-up
\* message and whose request and response are those of the status error.
C4_RecognizedRaisesCouchDBError ==
    (Checked /\ NonSuccess /\ Lookup.value # None) =>
        /\ outcome # None
        /\ outcome[1].type = "CouchDBHTTPStatusError"
        /\ outcome[1].message = Lookup.value[1]
        /\ outcome[1].request = raise_for_status(Resp)[1].request
        /\ outcome[1].response = raise_for_status(Resp)[1].response
        /\ outcome[1].request = Resp.request
        /\ outcome[1].response = Resp

C4_Witness ==
    /\ Checked
    /\ Method = "PUT"
    /\ PathParts = <<S("db1"), S("_security")>>
    /\ Resp.status_code = 401
    /\ outcome = Some(CouchDBHTTPStatusError(
                          "CouchDB Server Administrator privileges required.",
                          Resp.request, Resp))

\* C5: for a non-2xx response for which the resolver returns no message, the
\* wrapper re-raises the original HTTPStatusError unmodified, never a
\* CouchDBHTTPStatusError.
C5_UnrecognizedReraisesOriginal ==
    (Checked /\ NonSuccess /\ Lookup = Return(None)) =>
        /\ outcome = raise_for_status(Resp)
        /\ outcome[1].type = "HTTPStatusError"

C5_Witness ==
    /\ Checked
    /\ Method = "DELETE"
    /\ Len(PathParts) = 2
    /\ Resp.status_code = 500
    /\ outcome # None
    /\ outcome[1].type = "HTTPStatusError"
    /\ outcome[1].message = "Server error"

Invoked == fn # ""

Arg == args[1]

\* The invocation whose coroutine the call function returned.
Issued == calls[returned[1]]

\* The verb and the path of each call function's endpoint.
EndpointVerb ==
    CASE fn \in {"get_db_doc", "db_all_docs", "all_dbs"} -> "get"
      [] fn \in {"put_db_doc", "db_put", "put_design_doc", "put_db_security",
                 "put_attachment"} -> "put"
      [] fn \in {"db_post", "db_find", "db_bulk_docs"} -> "post"
      [] fn = "delete_db_doc" -> "delete"

EndpointPath ==
    CASE fn \in {"get_db_doc", "put_db_doc", "delete_db_doc"} ->
             <<"/">> \o Arg.db \o <<"/">> \o Arg.docid
      [] fn \in {"db_put", "db_post"} -> <<"/">> \o Arg.db
      [] fn = "db_find" -> <<"/">> \o Arg.db \o <<"/", "_find">>
      [] fn = "db_all_docs" -> <<"/">> \o Arg.db \o <<"/", "_all_docs">>
      [] fn = "db_bulk_docs" -> <<"/">> \o Arg.db \o <<"/", "_bulk_docs">>
      [] fn = "all_dbs" -> <<"/", "_all_dbs">>
      [] fn = "put_design_doc" -> <<"/">> \o Arg.db \o <<"/", "_design", "/">> \o Arg.ddoc
      [] fn = "put_db_security" -> <<"/">> \o Arg.db \o <<"/", "_security">>
      [] fn = "put_attachment" ->
             <<"/">> \o Arg.db \o <<"/">> \o Arg.doc_id \o <<"/">> \o Arg.attname

\* C6: each call function issues its request with the verb and the URL path
\* of its endpoint, the path being the interpolation of its arguments.
C6_VerbAndPath ==
    (Invoked /\ fn # "create_user") =>
        /\ Issued.verb = EndpointVerb
        /\ Issued.url = EndpointPath

C6_Witness ==
    /\ fn = "put_db_doc"
    /\ Arg.db = <<"db1">>
    /\ Arg.docid = <<"doc1">>
    /\ Issued.verb = "put"
    /\ Issued.url = <<"/", "db1", "/", "doc1">>

\* C7: a call function that takes a JSON body passes it unchanged as json,
\* and one that takes query parameters passes them unchanged as params,
\* None when the caller gave none.
C7_BodyAndParamsForwarded ==
    /\ fn \in {"put_db_doc", "db_post", "db_find"} =>
           /\ "json" \in DOMAIN Issued.kwargs
           /\ Issued.kwargs.json = Arg.body
    /\ fn \in {"get_db_doc", "put_db_doc", "delete_db_doc", "db_put", "db_all_docs",
               "all_dbs"} =>
           /\ "params" \in DOMAIN Issued.kwargs
           /\ Issued.kwargs.params = Arg.params

C7_Witness ==
    /\ fn = "put_db_doc"
    /\ Arg.params = None
    /\ Arg.body = [selector |-> [a |-> 1], limit |-> 2]
    /\ Issued.kwargs.params = None
    /\ Issued.kwargs.json = [selector |-> [a |-> 1], limit |-> 2]

\* C8: an invocation of a call function invokes one verb method of the
\* client once and returns that request's coroutine; it issues no second
\* request and handles nothing, so a transport failure of the request is
\* what the caller gets.
C8_SingleRequest ==
    Invoked =>
        /\ Len(calls) = 1
        /\ returned = Some(1)
        /\ pc = "failed" =>
               /\ awaited # None
               /\ awaited[1].error \in TransportErrors
               /\ awaited[1].response = None
               /\ response = None

C8_Witness ==
    /\ pc = "failed"
    /\ fn = "create_user"
    /\ Len(calls) = 1
    /\ awaited = Some(Awaited("ConnectError", None))

\* Every message literal of the tables.
Messages ==
    {EndpointTable(Endpoint(m, q), c)[1] :
        <<m, q, c>> \in {t \in Methods \X SegmentSeqs(3) \X StatusCodes :
                            EndpointTable(Endpoint(t[1], t[2]), t[3]) # None}}

\* C9: the resolver is total and without side effects: for every method,
\* path and status code it returns one message or None, raises nothing, and
\* leaves the response and its request unchanged.
C9_TotalAndPure ==
    [][(pc = "responded" /\ pc' = "resolved") =>
            /\ message'[1].raises = ""
            /\ \/ message'[1].value = None
               \/ /\ Len(message'[1].value) = 1
                  /\ message'[1].value[1] \in Messages
            /\ response' = response]_vars

C9_Witness ==
    /\ Resolved
    /\ Method = "HEAD"
    /\ Resp.request.url.path = <<"/", "/", "db1", "/">>
    /\ message[1] = Return(None)

\* A str argument that names one path segment: not empty, without a slash
\* and not a reserved segment name.
PlainName(str) ==
    /\ str # <<>>
    /\ \A i \in 1..Len(str) : str[i] # "/"
    /\ str \notin ReservedSegments

PlainArgs ==
    /\ "db" \in DOMAIN Arg => PlainName(Arg.db)
    /\ "docid" \in DOMAIN Arg => PlainName(Arg.docid)
    /\ "ddoc" \in DOMAIN Arg => PlainName(Arg.ddoc)

\* The table function of a call function.
OwnTable(name, status_code) ==
    CASE name = "get_db_doc" -> get_db_doc_status_code_message(status_code)
      [] name = "put_db_doc" -> put_db_doc_status_code_message(status_code)
      [] name = "delete_db_doc" -> delete_db_doc_status_code_message(status_code)
      [] name = "db_put" -> db_put_status_code_message(status_code)
      [] name = "db_post" -> db_post_status_code_message(status_code)
      [] name = "db_find" -> db_find_status_code_message(status_code)
      [] name = "db_all_docs" -> db_all_docs_status_code_message(status_code)
      [] name = "db_bulk_docs" -> db_bulk_docs_status_code_message(status_code)
      [] name = "all_dbs" -> all_dbs_status_code_message(status_code)
      [] name = "put_design_doc" -> put_design_doc_status_code_message(status_code)
      [] name = "put_db_security" -> put_db_security_status_code_message(status_code)

\* C10: for plain db, docid and ddoc arguments, a response to the request of
\* a call function that has its own table resolves to the result of that
\* function's own table function, for every status code.
C10_ResolvesAsOwnTable ==
    (Resolved /\ Invoked /\ fn \notin {"put_attachment", "create_user"} /\ PlainArgs) =>
        message[1] = Return(OwnTable(fn, Resp.status_code))

\* C11: the wrapper raises an error if and only if the status is not 2xx: it
\* returns normally for every 2xx response, also when the resolver has a
\* message for that status, and raises for every other response.
C11_RaisesIffNonSuccess ==
    Checked => (outcome = None <=> Resp.status_code \div 100 = 2)

C11_Witness ==
    /\ Checked
    /\ Method = "PUT"
    /\ PathParts = <<S("db1"), S("doc1")>>
    /\ Resp.status_code = 201
    /\ Lookup.value = Some("Document created and stored on disk.")
    /\ outcome = None

\* C12: the JSON body of put_design_doc has exactly the fields of the
\* DesignDocument that are not None, each with its value unchanged, so a
\* DesignDocument with no field set gives the empty object; the body of
\* put_db_security always has 'members' and 'admins', each with its 'names'
\* and 'roles' lists.
C12_DesignDocumentBody ==
    /\ fn = "put_design_doc" =>
           LET json == Issued.kwargs.json
               set == {f \in DesignDocumentFields : Arg.design_document[f] # None}
           IN  /\ DOMAIN json = set
               /\ \A f \in set : json[f] = Arg.design_document[f][1]
               /\ (\A f \in DesignDocumentFields : Arg.design_document[f] = None)
                      => DOMAIN json = {}
    /\ fn = "put_db_security" =>
           LET json == Issued.kwargs.json
           IN  /\ DOMAIN json = {"members", "admins"}
               /\ \A list \in {"members", "admins"} :
                      /\ DOMAIN json[list] = {"names", "roles"}
                      /\ json[list].names = Arg.security_object[list].names
                      /\ json[list].roles = Arg.security_object[list].roles

C12_Witness ==
    /\ fn = "put_design_doc"
    /\ Arg.design_document.language = Some("javascript")
    /\ Arg.design_document.views = None
    /\ DOMAIN Issued.kwargs.json = {"language"}
    /\ Issued.kwargs.json.language = "javascript"

\* C13: create_user issues the request of put_db_doc on database '_users'
\* with document ID 'org.couchdb.user:' followed by the username: one PUT to
\* /_users/org.couchdb.user:{username} whose JSON body is {name, password,
\* roles, type: 'user'}, roles being the empty list when the caller's roles
\* is omitted, None or empty.
C13_CreateUserRequest ==
    fn = "create_user" =>
        LET roles == IF Arg.roles \in {None, Some(<<>>)} THEN <<>> ELSE Arg.roles[1]
            body == [name |-> Arg.username, password |-> Arg.password,
                     roles |-> roles, type |-> "user"]
        IN  /\ calls = put_db_doc(<<"_users">>, <<"org.couchdb.user:">> \o Arg.username,
                                  body, None, NoKwargs).calls
            /\ Len(calls) = 1
            /\ Issued.verb = "put"
            /\ Issued.url = <<"/", "_users", "/", "org.couchdb.user:">> \o Arg.username
            /\ Issued.kwargs.json = body
            /\ Issued.kwargs.params = None

C13_Witness ==
    /\ fn = "create_user"
    /\ Arg.username = <<"db1">>
    /\ Arg.roles = None
    /\ Issued.verb = "put"
    /\ Issued.url = <<"/", "_users", "/", "org.couchdb.user:", "db1">>
    /\ Issued.kwargs.json = [name |-> <<"db1">>, password |-> "pw", roles |-> <<>>,
                             type |-> "user"]

====
